---------------------------- MODULE Spec2Model ----------------------------
(***************************************************************************)
(* Model of lib/platforms/googleaction/googleActionResponse.js: the        *)
(* GoogleActionResponse builder and its introspection predicates.          *)
(*                                                                         *)
(* Speech strings are sequences of one-character strings, so that the      *)
(* regular-expression replacements of toSSML / removeSpeakTags act on      *)
(* characters as they do in the source.  Card fields, context names,       *)
(* parameter names and values are plain strings; "" stands for every falsy *)
(* argument (the source tests them with `!x` / `if (x)` only).             *)
(*                                                                         *)
(* A JavaScript call either returns or throws.  Operators that model a     *)
(* method which can throw return a record with an `err` field: "none" for  *)
(* a normal return, otherwise the kind of the error thrown.                *)
(***************************************************************************)
EXTENDS Naturals, Sequences, FiniteSets

VARIABLES
    responseObj,   \* this.responseObj of the one GoogleActionResponse
    last,          \* the most recent call: its name, arguments and outcome
    spoken,        \* <<ssml>> of the most recent tell/ask/play, <<>> if none
    requested,     \* the permissions asked for so far, one entry per call
    offered,       \* the last two addList/addCarousel calls, oldest first
    elements       \* a BasicCard, an OptionItem and a List under construction

vars == <<responseObj, last, spoken, requested, offered, elements>>

---------------------------------------------------------------------------
(* Bounds of the model *)

MaxItems == 2
MaxContexts == 2
MaxCalls == 4
MaxOptions == 2
MaxFragments == 3
MaxButtons == 1
MaxSynonyms == 1

---------------------------------------------------------------------------
(* Character strings *)

OpenTag == <<"<", "s", "p", "e", "a", "k", ">">>
CloseTag == <<"<", "/", "s", "p", "e", "a", "k", ">">>
Hi == <<"h", "i">>

AudioHead ==
    <<"<", "a", "u", "d", "i", "o", " ", "s", "r", "c", "=", "\"">>
AudioMid == <<"\"", ">">>
AudioTail == <<"<", "/", "a", "u", "d", "i", "o", ">">>
BreakTag ==
    <<"<", "b", "r", "e", "a", "k", " ", "t", "i", "m", "e", "=", "\"",
      "1", "m", "s", "\"", "/", ">">>

\* String.prototype.replace(/tag/g, ''): leftmost, non-overlapping, one pass.
RECURSIVE replaceAll(_, _)
replaceAll(text, tag) ==
    IF Len(text) < Len(tag) THEN text
    ELSE IF SubSeq(text, 1, Len(tag)) = tag
         THEN replaceAll(SubSeq(text, Len(tag) + 1, Len(text)), tag)
         ELSE <<Head(text)>> \o replaceAll(Tail(text), tag)

removeSpeakTags(text) == replaceAll(replaceAll(text, OpenTag), CloseTag)

toSSML(text) ==
    OpenTag \o replaceAll(replaceAll(text, OpenTag), CloseTag) \o CloseTag

\* text.indexOf(str) > -1
indexOfFound(text, str) ==
    \E i \in 0..Len(text) :
        /\ i + Len(str) <= Len(text)
        /\ SubSeq(text, i + 1, i + Len(str)) = str

\* '<speak><audio src="' + audioUrl + '">' + fallbackText + '</audio></speak>'
audioSpeech(audioUrl, fallbackText) ==
    OpenTag \o AudioHead \o audioUrl \o AudioMid \o fallbackText
        \o AudioTail \o CloseTag

---------------------------------------------------------------------------
(* Outcomes of a call *)

Ret(v) == [err |-> "none", value |-> v]
ThrowB(e) == [err |-> e, value |-> FALSE]
ThrowT(e) == [err |-> e, value |-> <<>>]

\* try { ... } catch (err) { return false; }
CatchFalse(r) == IF r.err = "none" THEN r ELSE Ret(FALSE)

---------------------------------------------------------------------------
(* Rich response items and cards *)

\* width and height are kept only when truthy; 0 stands for a missing one
NoImage == [url |-> "", accessibilityText |-> "", width |-> 0, height |-> 0]

\* new BasicCard(): no field set
NewBasicCard ==
    [title |-> "", subtitle |-> "", formattedText |-> "",
     hasImage |-> FALSE, image |-> NoImage,
     hasButtons |-> FALSE, buttons |-> <<>>]

BasicCard_setTitle(c, title) ==
    IF title = "" THEN [err |-> "Title cannot be empty", card |-> c]
    ELSE [err |-> "none", card |-> [c EXCEPT !.title = title]]

BasicCard_setFormattedText(c, formattedText) ==
    IF formattedText = ""
    THEN [err |-> "FormattedText cannot be empty", card |-> c]
    ELSE [err |-> "none", card |-> [c EXCEPT !.formattedText = formattedText]]

BasicCard_setSubtitle(c, subtitle) ==
    IF subtitle = "" THEN [err |-> "Subtitle cannot be empty", card |-> c]
    ELSE [err |-> "none", card |-> [c EXCEPT !.subtitle = subtitle]]

BasicCard_setImage(c, url, accessibilityText, width, height) ==
    IF url = "" THEN [err |-> "url cannot be empty", card |-> c]
    ELSE IF accessibilityText = ""
    THEN [err |-> "accessibilityText cannot be empty", card |-> c]
    ELSE [err |-> "none",
          card |-> [c EXCEPT !.hasImage = TRUE,
                             !.image = [url |-> url,
                                        accessibilityText |-> accessibilityText,
                                        width |-> width,
                                        height |-> height]]]

\* this.buttons is created before text and url are validated
BasicCard_addButton(c, text, url) ==
    LET withButtons ==
            IF ~c.hasButtons
            THEN [c EXCEPT !.hasButtons = TRUE, !.buttons = <<>>]
            ELSE c
    IN  IF text = "" THEN [err |-> "text cannot be empty", card |-> withButtons]
        ELSE IF url = ""
        THEN [err |-> "url cannot be empty", card |-> withButtons]
        ELSE [err |-> "none",
              card |-> [withButtons EXCEPT
                          !.buttons = Append(@, [title |-> text,
                                                 url |-> url])]]

\* new BasicCard().setTitle(title).setFormattedText(formattedText)
titledCard(title, formattedText) ==
    LET r == BasicCard_setTitle(NewBasicCard, title)
    IN  IF r.err # "none" THEN r
        ELSE BasicCard_setFormattedText(r.card, formattedText)

createImageCard(title, formattedText, imageUrl, accessibilityText) ==
    LET r == titledCard(title, formattedText)
    IN  IF r.err # "none" THEN r
        ELSE IF imageUrl # ""
             THEN BasicCard_setImage(r.card, imageUrl, accessibilityText, 0, 0)
             ELSE r

\* {simpleResponse: {ssml: speech}}
SimpleResponse(speech) ==
    [kind |-> "simpleResponse", ssml |-> speech, basicCard |-> NewBasicCard]

\* {basicCard: card}
BasicCardItem(card) ==
    [kind |-> "basicCard", ssml |-> <<>>, basicCard |-> card]

---------------------------------------------------------------------------
(* The document *)

\* An OptionItem, a List or Carousel, and the systemIntent that carries one
\* (absent fields: "" for a string, a has-flag for an object or array).
NewOptionItem ==
    [title |-> "", description |-> "", hasImage |-> FALSE, image |-> NoImage,
     optionInfo |-> [key |-> "", synonyms |-> <<>>]]

\* new List() / new Carousel(): items [], and no title
NewCollection == [items |-> <<>>, title |-> ""]

NoSystemIntent ==
    [intent |-> "",
     data |-> [hasListSelect |-> FALSE, listSelect |-> NewCollection,
               hasCarouselSelect |-> FALSE, carouselSelect |-> NewCollection,
               type |-> ""]]

\* noInputPrompts, permissions, suggestions and expectedInputs are absent
\* until first set; every read of them in the source treats absent and empty
\* alike (a caught fault, the default [] of _.get, `|| []`), so <<>> stands
\* for both.  contextOut is read unguarded, so its absence is kept apart from
\* the empty array; so is that of systemIntent.
constructor ==
    [speech |-> OpenTag \o CloseTag,
     expectUserResponse |-> TRUE,
     items |-> <<>>,
     noInputPrompts |-> <<>>,
     hasContextOut |-> FALSE,
     contextOut |-> <<>>,
     permissions |-> <<>>,
     hasSystemIntent |-> FALSE,
     systemIntent |-> NoSystemIntent,
     suggestions |-> <<>>,
     expectedInputs |-> <<>>]

\* tell with push in place of unshift
tell_push(doc, speech) ==
    [doc EXCEPT !.speech = speech,
                !.expectUserResponse = FALSE,
                !.items = Append(@, SimpleResponse(speech))]

tell(doc, speech) ==
    [doc EXCEPT !.speech = speech,
                !.expectUserResponse = FALSE,
                !.items = <<SimpleResponse(speech)>> \o @]

ask(doc, speech, repromptSpeech) ==
    [doc EXCEPT !.speech = speech,
                !.expectUserResponse = TRUE,
                !.items = <<SimpleResponse(speech)>> \o @,
                !.noInputPrompts = <<repromptSpeech>>]

play(doc, audioUrl, fallbackText) ==
    tell(doc, audioSpeech(audioUrl, fallbackText))

addRichResponseItem(doc, item) ==
    [doc EXCEPT !.items = Append(@, item)]

\* The argument of push is evaluated first: a throwing setter leaves items.
addBasicCard(doc, title, formattedText) ==
    LET r == titledCard(title, formattedText)
    IN  IF r.err # "none" THEN [err |-> r.err, doc |-> doc]
        ELSE [err |-> "none",
              doc |-> [doc EXCEPT !.items = Append(@, BasicCardItem(r.card))]]

addImageCard(doc, title, formattedText, imageUrl, accessibilityText) ==
    LET r == createImageCard(title, formattedText, imageUrl, accessibilityText)
    IN  IF r.err # "none" THEN [err |-> r.err, doc |-> doc]
        ELSE [err |-> "none",
              doc |-> [doc EXCEPT !.items = Append(@, BasicCardItem(r.card))]]

getSpeechText(doc) ==
    IF doc.items = <<>> THEN ThrowT("TypeError")
    ELSE IF doc.items[1].kind # "simpleResponse" THEN ThrowT("TypeError")
    ELSE IF doc.items[1].ssml # <<>>
         THEN Ret(removeSpeakTags(doc.items[1].ssml))
         ELSE Ret(<<>>)

speechTextContains(doc, str) ==
    LET speechText == getSpeechText(doc)
    IN  IF speechText.err # "none" THEN ThrowB(speechText.err)
        ELSE Ret(indexOfFound(speechText.value, str))

\* items[0].simpleResponse.ssml inside a try block
firstSsml(doc) ==
    IF doc.items = <<>> THEN ThrowT("TypeError")
    ELSE IF doc.items[1].kind # "simpleResponse" THEN ThrowT("TypeError")
    ELSE Ret(doc.items[1].ssml)

isTell(doc, speechText) ==
    CatchFalse(
        IF doc.expectUserResponse # FALSE THEN Ret(FALSE)
        ELSE IF speechText # <<>>
        THEN IF doc.speech # toSSML(speechText) THEN Ret(FALSE)
             ELSE IF firstSsml(doc).err # "none"
                  THEN ThrowB(firstSsml(doc).err)
             ELSE IF firstSsml(doc).value # toSSML(speechText) THEN Ret(FALSE)
             ELSE Ret(TRUE)
        ELSE Ret(TRUE))

isAsk(doc, speechText, repromptText) ==
    CatchFalse(
        IF doc.expectUserResponse # TRUE THEN Ret(FALSE)
        ELSE IF speechText # <<>> /\ doc.speech # toSSML(speechText)
        THEN Ret(FALSE)
        ELSE IF speechText # <<>> /\ firstSsml(doc).err # "none"
        THEN ThrowB(firstSsml(doc).err)
        ELSE IF speechText # <<>> /\ firstSsml(doc).value # toSSML(speechText)
        THEN Ret(FALSE)
        ELSE IF repromptText # <<>>
        THEN IF doc.noInputPrompts = <<>> THEN ThrowB("TypeError")
             ELSE IF doc.noInputPrompts[1] # toSSML(repromptText)
                  THEN Ret(FALSE)
             ELSE Ret(TRUE)
        ELSE Ret(TRUE))

isPlay(doc, audioUrl, fallbackText) ==
    isTell(doc, audioSpeech(audioUrl, fallbackText))

isEmptyResponse(doc) == isTell(doc, BreakTag)

\* items.filter(item => item.basicCard)
basicCards(doc) ==
    SelectSeq(doc.items, LAMBDA item : item.kind = "basicCard")

hasBasicCard(doc, title, formattedText) ==
    CatchFalse(
        IF Len(basicCards(doc)) = 0 THEN Ret(FALSE)
        ELSE IF title # "" /\ basicCards(doc)[1].basicCard.title # title
        THEN Ret(FALSE)
        ELSE IF /\ formattedText # ""
                /\ basicCards(doc)[1].basicCard.formattedText # formattedText
        THEN Ret(FALSE)
        ELSE Ret(TRUE))

\* hasImageCard without the comparison of accessibilityText
hasImageCard_noAlt(doc, title, formattedText, imageUrl, accessibilityText) ==
    IF ~hasBasicCard(doc, title, formattedText).value THEN Ret(FALSE)
    ELSE CatchFalse(
        IF Len(basicCards(doc)) = 0 THEN Ret(FALSE)
        ELSE IF imageUrl # "" /\ ~basicCards(doc)[1].basicCard.hasImage
        THEN ThrowB("TypeError")
        ELSE IF imageUrl # "" /\ basicCards(doc)[1].basicCard.image.url # imageUrl
        THEN Ret(FALSE)
        ELSE Ret(TRUE))

hasImageCard(doc, title, formattedText, imageUrl, accessibilityText) ==
    IF ~hasBasicCard(doc, title, formattedText).value THEN Ret(FALSE)
    ELSE CatchFalse(
        IF Len(basicCards(doc)) = 0 THEN Ret(FALSE)
        ELSE IF imageUrl # "" /\ ~basicCards(doc)[1].basicCard.hasImage
        THEN ThrowB("TypeError")
        ELSE IF imageUrl # "" /\ basicCards(doc)[1].basicCard.image.url # imageUrl
        THEN Ret(FALSE)
        ELSE IF accessibilityText # "" /\ ~basicCards(doc)[1].basicCard.hasImage
        THEN ThrowB("TypeError")
        ELSE IF /\ accessibilityText # ""
                /\ basicCards(doc)[1].basicCard.image.accessibilityText
                       # accessibilityText
        THEN Ret(FALSE)
        ELSE Ret(TRUE))

---------------------------------------------------------------------------
(* contextOut *)

ParamNames == {"STATE", "p"}

\* parameters: {} -- no parameter set ("undefined" is the value of a missing key)
NoParameters == [k \in ParamNames |-> "undefined"]

\* Index of the first context named `name`, 0 if there is none.
firstNamed(contexts, name) ==
    IF \E i \in 1..Len(contexts) : contexts[i].name = name
    THEN CHOOSE i \in 1..Len(contexts) :
            /\ contexts[i].name = name
            /\ \A j \in 1..(i - 1) : contexts[j].name # name
    ELSE 0

\* Reading .length of an absent contextOut throws; a miss returns {}.
\* at = 0 stands for the fresh object {}, otherwise contextOut[at - 1] itself.
getContextOut(doc, name) ==
    IF ~doc.hasContextOut THEN [err |-> "TypeError", at |-> 0]
    ELSE [err |-> "none", at |-> firstNamed(doc.contextOut, name)]

setContextOut(doc, contexts) ==
    [doc EXCEPT !.hasContextOut = TRUE, !.contextOut = contexts]

addContextOutObject(doc, context) ==
    IF ~doc.hasContextOut THEN [err |-> "TypeError", doc |-> doc]
    ELSE [err |-> "none",
          doc |-> [doc EXCEPT !.contextOut = Append(@, context)]]

\* _.set(context, 'parameters.' + parameterName, value) creates `parameters`
\* when the object has none; on the fresh {} of a miss it touches nothing else.
addContextOutParameter(doc, contextName, parameterName, value) ==
    LET context == getContextOut(doc, contextName)
    IN  IF context.err # "none" THEN [err |-> context.err, doc |-> doc]
        ELSE IF context.at = 0 THEN [err |-> "none", doc |-> doc]
        ELSE [err |-> "none",
              doc |-> [doc EXCEPT
                  !.contextOut[context.at].hasParameters = TRUE,
                  !.contextOut[context.at].parameters[parameterName] = value]]

\* `!context` of an object, {} included, is false: the throw is never taken.
getContextOutParameter(doc, contextName, parameterName) ==
    LET context == getContextOut(doc, contextName)
        notContext == FALSE
    IN  IF context.err # "none" THEN [err |-> context.err, value |-> "undefined"]
        ELSE IF notContext
        THEN [err |-> "No context with name found", value |-> "undefined"]
        ELSE IF context.at = 0
        THEN [err |-> "TypeError", value |-> "undefined"]
        ELSE IF ~doc.contextOut[context.at].hasParameters
        THEN [err |-> "TypeError", value |-> "undefined"]
        ELSE [err |-> "none",
              value |-> doc.contextOut[context.at].parameters[parameterName]]

\* No try block here: a fault of getContextOut or of the parameter read
\* leaves the method as an exception.  parameterName "" is the omitted one.
hasContextOutParameter(doc, contextName, parameterName, value) ==
    LET context == getContextOut(doc, contextName)
    IN  IF context.err # "none" THEN ThrowB(context.err)
        ELSE IF context.at = 0 THEN Ret(FALSE)
        ELSE IF parameterName # ""
        THEN IF ~doc.contextOut[context.at].hasParameters
             THEN ThrowB("TypeError")
             ELSE IF doc.contextOut[context.at].parameters[parameterName]
                        # value
                  THEN Ret(FALSE)
             ELSE Ret(TRUE)
        ELSE Ret(TRUE)

hasState(doc, state) == hasContextOutParameter(doc, "session", "STATE", state)

---------------------------------------------------------------------------
(* Permissions *)

NAME == "NAME"
DEVICE_COARSE_LOCATION == "DEVICE_COARSE_LOCATION"
DEVICE_PRECISE_LOCATION == "DEVICE_PRECISE_LOCATION"

\* _.get(this, '...permissions_request.permissions', [])
getPermissions(doc) == doc.permissions

\* _.uniq: keeps the first occurrence of each value, in order
RECURSIVE uniqInto(_, _)
uniqInto(array, result) ==
    IF array = <<>> THEN result
    ELSE uniqInto(Tail(array),
                  IF \E i \in 1..Len(result) : result[i] = Head(array)
                  THEN result
                  ELSE Append(result, Head(array)))

uniq(array) == uniqInto(array, <<>>)

\* setPermissionToResponse without _.uniq
setPermissionToResponse_push(doc, permission) ==
    [doc EXCEPT !.permissions = Append(getPermissions(doc), permission)]

setPermissionToResponse(doc, permission) ==
    [doc EXCEPT !.permissions = uniq(Append(getPermissions(doc), permission))]

setNamePermission(doc) == setPermissionToResponse(doc, NAME)

setDeviceCoarseLocationPermission(doc) ==
    setPermissionToResponse(doc, DEVICE_COARSE_LOCATION)

setDevicePreciseLocationPermission(doc) ==
    setPermissionToResponse(doc, DEVICE_PRECISE_LOCATION)

---------------------------------------------------------------------------
(* OptionItem and List setters *)

OptionItem_setTitle(o, title) ==
    IF title = "" THEN [err |-> "title cannot be empty", item |-> o]
    ELSE [err |-> "none", item |-> [o EXCEPT !.title = title]]

OptionItem_setDescription(o, description) ==
    IF description = ""
    THEN [err |-> "description cannot be empty", item |-> o]
    ELSE [err |-> "none", item |-> [o EXCEPT !.description = description]]

OptionItem_setImage(o, url, accessibilityText, width, height) ==
    IF url = "" THEN [err |-> "url cannot be empty", item |-> o]
    ELSE IF accessibilityText = ""
    THEN [err |-> "accessibilityText cannot be empty", item |-> o]
    ELSE [err |-> "none",
          item |-> [o EXCEPT !.hasImage = TRUE,
                             !.image = [url |-> url,
                                        accessibilityText |-> accessibilityText,
                                        width |-> width,
                                        height |-> height]]]

OptionItem_setKey(o, key) ==
    IF key = "" THEN [err |-> "key cannot be empty", item |-> o]
    ELSE [err |-> "none", item |-> [o EXCEPT !.optionInfo.key = key]]

OptionItem_addSynonym(o, synonym) ==
    IF synonym = "" THEN [err |-> "synonym cannot be empty", item |-> o]
    ELSE [err |-> "none",
          item |-> [o EXCEPT !.optionInfo.synonyms = Append(@, synonym)]]

List_setTitle(l, title) ==
    IF title = "" THEN [err |-> "title cannot be empty", list |-> l]
    ELSE [err |-> "none", list |-> [l EXCEPT !.title = title]]

---------------------------------------------------------------------------
(* System intents, suggestion chips, account linking *)

OPTION == "actions.intent.OPTION"
OptionValueSpec == "type.googleapis.com/google.actions.v2.OptionValueSpec"

\* addCarousel writing its key into the systemIntent already there
addCarousel_merge(doc, carousel) ==
    IF doc.hasSystemIntent
    THEN [doc EXCEPT !.systemIntent.data.hasCarouselSelect = TRUE,
                     !.systemIntent.data.carouselSelect = carousel]
    ELSE [doc EXCEPT
            !.hasSystemIntent = TRUE,
            !.systemIntent =
                [intent |-> OPTION,
                 data |-> [hasListSelect |-> FALSE,
                           listSelect |-> NewCollection,
                           hasCarouselSelect |-> TRUE,
                           carouselSelect |-> carousel,
                           type |-> OptionValueSpec]]]

\* _.set(this.responseObj, 'data.google.systemIntent', systemIntent)
addList(doc, list) ==
    [doc EXCEPT
        !.hasSystemIntent = TRUE,
        !.systemIntent =
            [intent |-> OPTION,
             data |-> [hasListSelect |-> TRUE, listSelect |-> list,
                       hasCarouselSelect |-> FALSE,
                       carouselSelect |-> NewCollection,
                       type |-> OptionValueSpec]]]

addCarousel(doc, carousel) ==
    [doc EXCEPT
        !.hasSystemIntent = TRUE,
        !.systemIntent =
            [intent |-> OPTION,
             data |-> [hasListSelect |-> FALSE, listSelect |-> NewCollection,
                       hasCarouselSelect |-> TRUE, carouselSelect |-> carousel,
                       type |-> OptionValueSpec]]]

getSignInInput ==
    [textToSpeech |-> "PLACEHOLDER_FOR_SIGN_IN",
     intent |-> "actions.intent.SIGN_IN"]

addAccountLinkingCard(doc) ==
    [doc EXCEPT !.expectedInputs = Append(@, getSignInInput)]

\* suggestions is reset to [] and then filled, one {title: chip} per chip
addSuggestionChips(doc, chips) ==
    [doc EXCEPT !.suggestions = [i \in 1..Len(chips) |-> [title |-> chips[i]]]]

---------------------------------------------------------------------------
(* Inputs *)

SpeechTexts == {<<>>, Hi, OpenTag \o Hi \o CloseTag}
RepromptTexts == {<<>>, Hi, OpenTag \o Hi \o CloseTag}
AudioUrls == {<<"u">>}
FallbackTexts == {<<"f">>, OpenTag}
Titles == {"", "T", "X"}
Bodies == {"", "B"}
ImageUrls == {"", "U", "V"}
AltTexts == {"", "A"}
RichItems ==
    {SimpleResponse(Hi),
     BasicCardItem([NewBasicCard EXCEPT !.title = "T"])}

ContextNames == {"session", "c"}
ParamValues == {"a", "b"}

\* Contexts as a caller hands them in: with no `parameters`, or an empty one.
CallerContexts ==
    {[name |-> n, hasParameters |-> h, parameters |-> NoParameters] :
        n \in ContextNames, h \in BOOLEAN}
ContextLists ==
    {<<>>} \cup {<<c>> : c \in CallerContexts}

\* Option items as a caller builds them, and the collections made of them
OptionItems ==
    {[NewOptionItem EXCEPT !.title = k, !.optionInfo.key = k] :
        k \in {"one", "two"}}
OptionLists ==
    UNION {[1..n -> OptionItems] : n \in 0..MaxOptions}
Carousels == {[items |-> o, title |-> ""] : o \in OptionLists}
Lists == {[items |-> o, title |-> t] : o \in OptionLists, t \in {"", "L"}}
ChipLists == {<<>>, <<"yes", "no">>}

NoCall ==
    [op |-> "new", err |-> "none", s |-> <<>>, r |-> <<>>,
     t |-> "", f |-> "", u |-> "", a |-> "",
     n |-> "", p |-> "", v |-> "undefined"]

---------------------------------------------------------------------------
(* The speech and card operations *)

NewElements ==
    [card |-> NewBasicCard, option |-> NewOptionItem, list |-> NewCollection]

Init ==
    /\ responseObj = constructor
    /\ last = NoCall
    /\ spoken = <<>>
    /\ requested = <<>>
    /\ offered = <<>>
    /\ elements = NewElements

Tell ==
    \E speech \in SpeechTexts :
        /\ Len(responseObj.items) < MaxItems
        /\ responseObj' = tell(responseObj, speech)
        /\ last' = [NoCall EXCEPT !.op = "tell", !.s = speech]
        /\ spoken' = <<speech>>
        /\ UNCHANGED <<requested, offered, elements>>

Ask ==
    \E speech \in SpeechTexts, repromptSpeech \in RepromptTexts :
        /\ Len(responseObj.items) < MaxItems
        /\ responseObj' = ask(responseObj, speech, repromptSpeech)
        /\ last' = [NoCall EXCEPT !.op = "ask", !.s = speech,
                                  !.r = repromptSpeech]
        /\ spoken' = <<speech>>
        /\ UNCHANGED <<requested, offered, elements>>

Play ==
    \E audioUrl \in AudioUrls, fallbackText \in FallbackTexts :
        /\ Len(responseObj.items) < MaxItems
        /\ responseObj' = play(responseObj, audioUrl, fallbackText)
        /\ last' = [NoCall EXCEPT !.op = "play", !.s = audioUrl,
                                  !.r = fallbackText]
        /\ spoken' = <<audioSpeech(audioUrl, fallbackText)>>
        /\ UNCHANGED <<requested, offered, elements>>

AddBasicCard ==
    \E title \in Titles, formattedText \in Bodies :
        /\ Len(responseObj.items) < MaxItems
        /\ responseObj' = addBasicCard(responseObj, title, formattedText).doc
        /\ last' = [NoCall EXCEPT
                        !.op = "addBasicCard",
                        !.err = addBasicCard(responseObj, title,
                                             formattedText).err,
                        !.t = title, !.f = formattedText]
        /\ UNCHANGED <<spoken, requested, offered, elements>>

AddImageCard ==
    \E title \in Titles, formattedText \in Bodies,
       imageUrl \in ImageUrls, accessibilityText \in AltTexts :
        /\ Len(responseObj.items) < MaxItems
        /\ responseObj' = addImageCard(responseObj, title, formattedText,
                                       imageUrl, accessibilityText).doc
        /\ last' = [NoCall EXCEPT
                        !.op = "addImageCard",
                        !.err = addImageCard(responseObj, title, formattedText,
                                             imageUrl, accessibilityText).err,
                        !.t = title, !.f = formattedText,
                        !.u = imageUrl, !.a = accessibilityText]
        /\ UNCHANGED <<spoken, requested, offered, elements>>

AddRichResponseItem ==
    \E item \in RichItems :
        /\ Len(responseObj.items) < MaxItems
        /\ responseObj' = addRichResponseItem(responseObj, item)
        /\ last' = [NoCall EXCEPT !.op = "addRichResponseItem"]
        /\ UNCHANGED <<spoken, requested, offered, elements>>

Next ==
    \/ Tell
    \/ Ask
    \/ Play
    \/ AddBasicCard
    \/ AddImageCard
    \/ AddRichResponseItem

Spec == Init /\ [][Next]_vars

---------------------------------------------------------------------------
(* The context operations *)

SetContextOut ==
    \E contexts \in ContextLists :
        /\ responseObj' = setContextOut(responseObj, contexts)
        /\ last' = [NoCall EXCEPT !.op = "setContextOut"]
        /\ UNCHANGED <<spoken, requested, offered, elements>>

AddContextOutObject ==
    \E context \in CallerContexts :
        /\ Len(responseObj.contextOut) < MaxContexts
        /\ responseObj' = addContextOutObject(responseObj, context).doc
        /\ last' = [NoCall EXCEPT
                        !.op = "addContextOutObject",
                        !.err = addContextOutObject(responseObj, context).err,
                        !.n = context.name]
        /\ UNCHANGED <<spoken, requested, offered, elements>>

AddContextOutParameter ==
    \E contextName \in ContextNames, parameterName \in ParamNames,
       value \in ParamValues :
        /\ responseObj' = addContextOutParameter(responseObj, contextName,
                                                 parameterName, value).doc
        /\ last' = [NoCall EXCEPT
                        !.op = "addContextOutParameter",
                        !.err = addContextOutParameter(responseObj, contextName,
                                                       parameterName, value).err,
                        !.n = contextName, !.p = parameterName, !.v = value]
        /\ UNCHANGED <<spoken, requested, offered, elements>>

GetContextOutParameter ==
    \E contextName \in ContextNames, parameterName \in ParamNames :
        /\ last' = [NoCall EXCEPT
                        !.op = "getContextOutParameter",
                        !.err = getContextOutParameter(responseObj, contextName,
                                                       parameterName).err,
                        !.n = contextName, !.p = parameterName,
                        !.v = getContextOutParameter(responseObj, contextName,
                                                     parameterName).value]
        /\ UNCHANGED <<responseObj, spoken, requested, offered, elements>>

NextContext ==
    \/ SetContextOut
    \/ AddContextOutObject
    \/ AddContextOutParameter
    \/ GetContextOutParameter

SpecContext == Init /\ [][NextContext]_vars

---------------------------------------------------------------------------
(* The permission operations *)

SetNamePermission ==
    /\ Len(requested) < MaxCalls
    /\ responseObj' = setNamePermission(responseObj)
    /\ requested' = Append(requested, NAME)
    /\ last' = [NoCall EXCEPT !.op = "setNamePermission"]
    /\ UNCHANGED <<spoken, offered, elements>>

SetDeviceCoarseLocationPermission ==
    /\ Len(requested) < MaxCalls
    /\ responseObj' = setDeviceCoarseLocationPermission(responseObj)
    /\ requested' = Append(requested, DEVICE_COARSE_LOCATION)
    /\ last' = [NoCall EXCEPT !.op = "setDeviceCoarseLocationPermission"]
    /\ UNCHANGED <<spoken, offered, elements>>

SetDevicePreciseLocationPermission ==
    /\ Len(requested) < MaxCalls
    /\ responseObj' = setDevicePreciseLocationPermission(responseObj)
    /\ requested' = Append(requested, DEVICE_PRECISE_LOCATION)
    /\ last' = [NoCall EXCEPT !.op = "setDevicePreciseLocationPermission"]
    /\ UNCHANGED <<spoken, offered, elements>>

NextPermissions ==
    \/ SetNamePermission
    \/ SetDeviceCoarseLocationPermission
    \/ SetDevicePreciseLocationPermission

SpecPermissions == Init /\ [][NextPermissions]_vars

---------------------------------------------------------------------------
(* The system intent operations *)

\* The record of one addList / addCarousel call, kept with the one before it
Offer(kind, collection) ==
    (IF offered = <<>> THEN <<>> ELSE <<offered[Len(offered)]>>)
        \o <<[kind |-> kind, collection |-> collection]>>

AddList ==
    \E list \in Lists :
        /\ responseObj' = addList(responseObj, list)
        /\ offered' = Offer("listSelect", list)
        /\ last' = [NoCall EXCEPT !.op = "addList"]
        /\ UNCHANGED <<spoken, requested, elements>>

AddCarousel ==
    \E carousel \in Carousels :
        /\ responseObj' = addCarousel(responseObj, carousel)
        /\ offered' = Offer("carouselSelect", carousel)
        /\ last' = [NoCall EXCEPT !.op = "addCarousel"]
        /\ UNCHANGED <<spoken, requested, elements>>

AddAccountLinkingCard ==
    /\ Len(responseObj.expectedInputs) < MaxCalls
    /\ responseObj' = addAccountLinkingCard(responseObj)
    /\ last' = [NoCall EXCEPT !.op = "addAccountLinkingCard"]
    /\ UNCHANGED <<spoken, requested, offered, elements>>

AddSuggestionChips ==
    \E chips \in ChipLists :
        /\ responseObj' = addSuggestionChips(responseObj, chips)
        /\ last' = [NoCall EXCEPT !.op = "addSuggestionChips"]
        /\ UNCHANGED <<spoken, requested, offered, elements>>

NextIntent ==
    \/ AddList
    \/ AddCarousel
    \/ AddAccountLinkingCard
    \/ AddSuggestionChips

SpecIntent == Init /\ [][NextIntent]_vars

---------------------------------------------------------------------------
(* The speech markup functions, applied to texts put together from fragments *)

Fragments ==
    {OpenTag, CloseTag, Hi,
     <<"<", "s", "p">>, <<"e", "a", "k", ">">>, <<"<", "/", "s", "p">>}

RECURSIVE Concat(_)
Concat(parts) ==
    IF parts = <<>> THEN <<>> ELSE Head(parts) \o Concat(Tail(parts))

MarkupTexts ==
    {Concat(parts) :
        parts \in UNION {[1..n -> Fragments] : n \in 0..MaxFragments}}

InitMarkup ==
    /\ responseObj = constructor
    /\ last \in {[NoCall EXCEPT !.op = "text", !.s = x] : x \in MarkupTexts}
    /\ spoken = <<>>
    /\ requested = <<>>
    /\ offered = <<>>
    /\ elements = NewElements

\* toSSML of the text, or of what the previous call returned
ToSSML ==
    /\ last.op \in {"text", "toSSML"}
    /\ LET text == IF last.op = "text" THEN last.s ELSE last.r
       IN  last' = [NoCall EXCEPT !.op = "toSSML", !.s = text,
                                  !.r = toSSML(text)]
    /\ UNCHANGED <<responseObj, spoken, requested, offered, elements>>

\* removeSpeakTags of the text, or of what toSSML returned
RemoveSpeakTags ==
    /\ last.op \in {"text", "toSSML"}
    /\ LET text == IF last.op = "text" THEN last.s ELSE last.r
       IN  last' = [NoCall EXCEPT !.op = "removeSpeakTags", !.s = text,
                                  !.r = removeSpeakTags(text)]
    /\ UNCHANGED <<responseObj, spoken, requested, offered, elements>>

NextMarkup ==
    \/ ToSSML
    \/ RemoveSpeakTags

SpecMarkup == InitMarkup /\ [][NextMarkup]_vars

---------------------------------------------------------------------------
(* The setters of a BasicCard, an OptionItem and a List *)

Strings == {"", "x"}
ImageSizes == {<<0, 0>>, <<40, 30>>}

\* One setter call on the card: the card it leaves and how it ended
CardCall(op, r) ==
    /\ elements' = [elements EXCEPT !.card = r.card]
    /\ last' = [NoCall EXCEPT !.op = op, !.err = r.err]
    /\ UNCHANGED <<responseObj, spoken, requested, offered>>

ItemCall(op, r) ==
    /\ elements' = [elements EXCEPT !.option = r.item]
    /\ last' = [NoCall EXCEPT !.op = op, !.err = r.err]
    /\ UNCHANGED <<responseObj, spoken, requested, offered>>

CardSetTitle ==
    \E title \in Strings :
        CardCall("BasicCard.setTitle", BasicCard_setTitle(elements.card, title))

CardSetSubtitle ==
    \E subtitle \in Strings :
        CardCall("BasicCard.setSubtitle",
                 BasicCard_setSubtitle(elements.card, subtitle))

CardSetFormattedText ==
    \E formattedText \in Strings :
        CardCall("BasicCard.setFormattedText",
                 BasicCard_setFormattedText(elements.card, formattedText))

CardSetImage ==
    \E url \in Strings, accessibilityText \in Strings, size \in ImageSizes :
        CardCall("BasicCard.setImage",
                 BasicCard_setImage(elements.card, url, accessibilityText,
                                    size[1], size[2]))

CardAddButton ==
    \E text \in Strings, url \in Strings :
        /\ Len(elements.card.buttons) < MaxButtons
        /\ CardCall("BasicCard.addButton",
                    BasicCard_addButton(elements.card, text, url))

ItemSetTitle ==
    \E title \in Strings :
        ItemCall("OptionItem.setTitle",
                 OptionItem_setTitle(elements.option, title))

ItemSetDescription ==
    \E description \in Strings :
        ItemCall("OptionItem.setDescription",
                 OptionItem_setDescription(elements.option, description))

ItemSetImage ==
    \E url \in Strings, accessibilityText \in Strings, size \in ImageSizes :
        ItemCall("OptionItem.setImage",
                 OptionItem_setImage(elements.option, url, accessibilityText,
                                     size[1], size[2]))

ItemSetKey ==
    \E key \in Strings :
        ItemCall("OptionItem.setKey", OptionItem_setKey(elements.option, key))

ItemAddSynonym ==
    \E synonym \in Strings :
        /\ Len(elements.option.optionInfo.synonyms) < MaxSynonyms
        /\ ItemCall("OptionItem.addSynonym",
                    OptionItem_addSynonym(elements.option, synonym))

ListSetTitle ==
    \E title \in Strings :
        /\ elements' = [elements EXCEPT
                           !.list = List_setTitle(elements.list, title).list]
        /\ last' = [NoCall EXCEPT
                        !.op = "List.setTitle",
                        !.err = List_setTitle(elements.list, title).err]
        /\ UNCHANGED <<responseObj, spoken, requested, offered>>

NextElements ==
    \/ CardSetTitle
    \/ CardSetSubtitle
    \/ CardSetFormattedText
    \/ CardSetImage
    \/ CardAddButton
    \/ ItemSetTitle
    \/ ItemSetDescription
    \/ ItemSetImage
    \/ ItemSetKey
    \/ ItemAddSynonym
    \/ ListSetTitle

SpecElements == Init /\ [][NextElements]_vars

---------------------------------------------------------------------------
(* Properties *)

CardOps == {"addBasicCard", "addImageCard", "addRichResponseItem"}

\* C1: right after tell(s), isTell(s) returns true, expectUserResponse is
\* false, and both items[0] and the top-level speech hold toSSML(s).
C1_TellContract ==
    last.op = "tell" =>
        /\ isTell(responseObj, last.s) = Ret(TRUE)
        /\ responseObj.expectUserResponse = FALSE
        /\ responseObj.items # <<>>
        /\ responseObj.items[1] = SimpleResponse(toSSML(last.s))
        /\ responseObj.speech = toSSML(last.s)

\* C2: right after ask(s, r), isAsk(s, r) returns true, expectUserResponse
\* is true, and noInputPrompts is the one element r, stored as given.
C2_AskContract ==
    last.op = "ask" =>
        /\ isAsk(responseObj, last.s, last.r) = Ret(TRUE)
        /\ responseObj.expectUserResponse = TRUE
        /\ responseObj.noInputPrompts = <<last.r>>

\* C3 as stated: the item of the most recent tell/ask/play is items[0], and
\* whenever items[0] is a simple response, speech equals its ssml.
C3_SpeechMirrorsFirstItem ==
    /\ spoken # <<>> =>
        /\ responseObj.items # <<>>
        /\ responseObj.items[1] = SimpleResponse(spoken[1])
    /\ (/\ responseObj.items # <<>>
        /\ responseObj.items[1].kind = "simpleResponse") =>
            responseObj.speech = responseObj.items[1].ssml

\* C3 amended: once tell, ask or play has been called, the item of the most
\* recent such call is items[0] and speech equals its ssml, whatever cards
\* and items were added before or after.
C3_SpeechAtFrontOnceSpoken ==
    spoken # <<>> =>
        /\ responseObj.items # <<>>
        /\ responseObj.items[1] = SimpleResponse(spoken[1])
        /\ responseObj.speech = responseObj.items[1].ssml

C3_Witness ==
    /\ spoken # <<>>
    /\ last.op \in CardOps
    /\ last.err = "none"
    /\ Len(responseObj.items) >= 2
    /\ responseObj.items[1] = SimpleResponse(spoken[1])

\* C5: getSpeechText never throws: it returns the ssml of items[0] without
\* its speak tags when items[0] is a simple response with non-empty ssml and
\* the empty string otherwise; speechTextContains never throws either.
C5_GetSpeechTextTotal ==
    /\ getSpeechText(responseObj) =
          IF /\ responseObj.items # <<>>
             /\ responseObj.items[1].kind = "simpleResponse"
             /\ responseObj.items[1].ssml # <<>>
          THEN Ret(removeSpeakTags(responseObj.items[1].ssml))
          ELSE Ret(<<>>)
    /\ \A str \in SpeechTexts :
          speechTextContains(responseObj, str).err = "none"

\* C9: right after play(audioUrl, fallbackText) the turn is ended and
\* isPlay(audioUrl, fallbackText) returns true; isPlay(a, f) is isTell of the
\* audio-tag speech of a and f.
C9_PlayContract ==
    /\ last.op = "play" =>
        /\ responseObj.expectUserResponse = FALSE
        /\ isPlay(responseObj, last.s, last.r) = Ret(TRUE)
    /\ \A a \in AudioUrls, f \in FallbackTexts :
          isPlay(responseObj, a, f) = isTell(responseObj, audioSpeech(a, f))

---------------------------------------------------------------------------
(* Cards *)

ProbeTitles == Titles \cup {"Z"}
ProbeBodies == Bodies \cup {"Z"}
ProbeImageUrls == ImageUrls \cup {"Z"}
ProbeAltTexts == AltTexts \cup {"Z"}

\* The document with nothing in items but its first card.
OnlyFirstCard(doc) ==
    LET k == CHOOSE i \in 1..Len(doc.items) :
                /\ doc.items[i].kind = "basicCard"
                /\ \A j \in 1..(i - 1) : doc.items[j].kind # "basicCard"
    IN  [doc EXCEPT !.items = <<doc.items[k]>>]

\* addImageCard with four non-empty arguments has just put the only card
ImageCardJustAdded ==
    /\ last.op = "addImageCard"
    /\ last.err = "none"
    /\ last.t # "" /\ last.f # "" /\ last.u # "" /\ last.a # ""
    /\ Len(basicCards(responseObj)) = 1

\* hasImageCard answers FALSE when one argument is replaced by any value of
\* `others` that differs from the one the card was built with.
OneChangedIsFalse(ts, fs, us, as) ==
    /\ \A x \in ts : x # last.t =>
          hasImageCard(responseObj, x, last.f, last.u, last.a) = Ret(FALSE)
    /\ \A x \in fs : x # last.f =>
          hasImageCard(responseObj, last.t, x, last.u, last.a) = Ret(FALSE)
    /\ \A x \in us : x # last.u =>
          hasImageCard(responseObj, last.t, last.f, x, last.a) = Ret(FALSE)
    /\ \A x \in as : x # last.a =>
          hasImageCard(responseObj, last.t, last.f, last.u, x) = Ret(FALSE)

\* With one card or several, the predicates answer as on the first card alone.
FirstCardDecides ==
    Len(basicCards(responseObj)) >= 1 =>
        \A t \in ProbeTitles, f \in ProbeBodies :
            /\ hasBasicCard(responseObj, t, f)
                  = hasBasicCard(OnlyFirstCard(responseObj), t, f)
            /\ \A u \in ProbeImageUrls, a \in ProbeAltTexts :
                  hasImageCard(responseObj, t, f, u, a)
                      = hasImageCard(OnlyFirstCard(responseObj), t, f, u, a)

\* C10 as stated: after addImageCard(T, B, U, A) on a document without a
\* card, hasImageCard(T, B, U, A) is true and changing any one argument to
\* any different value makes it false; the first card alone decides.
C10_AnyChangedArgumentIsFalse ==
    /\ ImageCardJustAdded =>
        /\ hasImageCard(responseObj, last.t, last.f, last.u, last.a) = Ret(TRUE)
        /\ OneChangedIsFalse(ProbeTitles, ProbeBodies, ProbeImageUrls,
                             ProbeAltTexts)
    /\ FirstCardDecides

\* C10 amended: as above, for an argument changed to a different NON-EMPTY
\* value; an empty (omitted) argument is not compared at all.
C10_ChangedNonEmptyArgumentIsFalse ==
    /\ ImageCardJustAdded =>
        /\ hasImageCard(responseObj, last.t, last.f, last.u, last.a) = Ret(TRUE)
        /\ OneChangedIsFalse(ProbeTitles \ {""}, ProbeBodies \ {""},
                             ProbeImageUrls \ {""}, ProbeAltTexts \ {""})
    /\ FirstCardDecides

C10_Witness ==
    /\ ImageCardJustAdded
    /\ Len(responseObj.items) = 2
    /\ responseObj.items[1].kind = "simpleResponse"

---------------------------------------------------------------------------
(* Contexts *)

NoContextNamed(doc, name) ==
    ~doc.hasContextOut \/ firstNamed(doc.contextOut, name) = 0

\* C4: every introspection predicate returns true or false in every state
\* and never throws.
C4_PredicatesTotal ==
    /\ \A s \in SpeechTexts, r \in RepromptTexts :
          /\ isTell(responseObj, s).err = "none"
          /\ isAsk(responseObj, s, r).err = "none"
    /\ \A a \in AudioUrls, f \in FallbackTexts :
          isPlay(responseObj, a, f).err = "none"
    /\ isEmptyResponse(responseObj).err = "none"
    /\ \A t \in ProbeTitles, f \in ProbeBodies :
          /\ hasBasicCard(responseObj, t, f).err = "none"
          /\ \A u \in ProbeImageUrls, a \in ProbeAltTexts :
                hasImageCard(responseObj, t, f, u, a).err = "none"
    /\ \A n \in ContextNames, p \in ParamNames \cup {""},
          v \in ParamValues \cup {"undefined"} :
          hasContextOutParameter(responseObj, n, p, v).err = "none"
    /\ \A state \in ParamValues : hasState(responseObj, state).err = "none"

\* C6: when no context is named n, getContextOut(n) returns an empty object
\* without failing and getContextOutParameter(n, p) throws the dedicated
\* 'No context with name ... found' error.
C6_MissingContextLookup ==
    \A n \in ContextNames :
        NoContextNamed(responseObj, n) =>
            /\ getContextOut(responseObj, n) = [err |-> "none", at |-> 0]
            /\ \A p \in ParamNames :
                  getContextOutParameter(responseObj, n, p).err
                      = "No context with name found"

\* C7: addContextOutParameter(name, p, v) with no context of that name
\* returns normally and leaves the document as it was; with one, it sets
\* parameters[p] = v on the first such context, creating `parameters` if
\* absent, and changes nothing else.
C7_SetParameterFrame ==
    [][last'.op = "addContextOutParameter" =>
        LET at == firstNamed(responseObj.contextOut, last'.n)
        IN  /\ last'.err = "none"
            /\ IF NoContextNamed(responseObj, last'.n)
               THEN responseObj' = responseObj
               ELSE /\ responseObj'.contextOut[at].name = last'.n
                    /\ responseObj'.contextOut[at].hasParameters
                    /\ \A q \in ParamNames :
                          responseObj'.contextOut[at].parameters[q] =
                             IF q = last'.p THEN last'.v
                             ELSE responseObj.contextOut[at].parameters[q]
                    /\ Len(responseObj'.contextOut) = Len(responseObj.contextOut)
                    /\ \A j \in 1..Len(responseObj.contextOut) :
                          j # at => responseObj'.contextOut[j]
                                        = responseObj.contextOut[j]
                    /\ [responseObj' EXCEPT !.contextOut = <<>>]
                          = [responseObj EXCEPT !.contextOut = <<>>]
    ]_vars

---------------------------------------------------------------------------
(* Permissions *)

\* The call that first asked for permission x
FirstCall(x) ==
    CHOOSE k \in 1..Len(requested) :
        /\ requested[k] = x
        /\ \A m \in 1..(k - 1) : requested[m] # x

\* C8: after any sequence of permission requests, getPermissions() has no
\* duplicates, holds exactly the permissions requested, in the order of the
\* first call for each; with no call it is empty.
C8_PermissionsOrderedSet ==
    LET perms == getPermissions(responseObj)
    IN  /\ \A i, j \in 1..Len(perms) : i # j => perms[i] # perms[j]
        /\ {perms[i] : i \in 1..Len(perms)}
              = {requested[k] : k \in 1..Len(requested)}
        /\ \A i, j \in 1..Len(perms) :
              i < j => FirstCall(perms[i]) < FirstCall(perms[j])
        /\ requested = <<>> => perms = <<>>

C8_Witness ==
    /\ Len(requested) = 4
    /\ requested[1] = requested[3]
    /\ requested[2] # requested[1]
    /\ Len(getPermissions(responseObj)) = 2

---------------------------------------------------------------------------
(* System intent *)

\* C11: after any sequence of addList and addCarousel calls the systemIntent
\* is that of the last call alone: intent 'actions.intent.OPTION', exactly
\* one of the keys listSelect / carouselSelect, holding the collection of
\* the last call, and nothing of an earlier call.
C11_LastIntentWins ==
    IF offered = <<>> THEN ~responseObj.hasSystemIntent
    ELSE LET call == offered[Len(offered)]
             data == responseObj.systemIntent.data
         IN  /\ responseObj.hasSystemIntent
             /\ responseObj.systemIntent.intent = "actions.intent.OPTION"
             /\ data.type
                  = "type.googleapis.com/google.actions.v2.OptionValueSpec"
             /\ data.hasListSelect # data.hasCarouselSelect
             /\ data.hasListSelect <=> call.kind = "listSelect"
             /\ data.listSelect =
                  IF call.kind = "listSelect" THEN call.collection
                  ELSE NewCollection
             /\ data.carouselSelect =
                  IF call.kind = "carouselSelect" THEN call.collection
                  ELSE NewCollection

C11_Witness ==
    /\ Len(offered) = 2
    /\ offered[1].kind = "listSelect"
    /\ offered[1].collection.items # <<>>
    /\ offered[2].kind = "carouselSelect"
    /\ offered[2].collection.items # offered[1].collection.items
    /\ responseObj.expectedInputs # <<>>

---------------------------------------------------------------------------
(* Speech markup *)

\* The places at which `tag` occurs in `text`
Occurrences(text, tag) ==
    {i \in 1..Len(text) :
        /\ i + Len(tag) - 1 <= Len(text)
        /\ SubSeq(text, i, i + Len(tag) - 1) = tag}

\* C12: toSSML is idempotent on every text, and its result holds exactly
\* one opening and one closing speak tag, at its start and at its end.
C12_WrapIdempotent ==
    last.op = "toSSML" =>
        /\ toSSML(last.r) = last.r
        /\ Occurrences(last.r, OpenTag) = {1}
        /\ Occurrences(last.r, CloseTag) = {Len(last.r) - Len(CloseTag) + 1}

---------------------------------------------------------------------------
(* Validation *)

\* A call that has just ended with a validation error
FailedStep == last'.err \notin {"none", "TypeError"}

\* A failed addBasicCard / addImageCard leaves the items of the document.
FailedCardLeavesItems ==
    [][(FailedStep /\ last'.op \in {"addBasicCard", "addImageCard"})
          => responseObj'.items = responseObj.items]_vars

\* A failed setter other than addButton leaves its element.
FailedSetterLeavesElement ==
    [][(FailedStep /\ last'.op # "BasicCard.addButton")
          => elements' = elements]_vars

\* C13: a validating operation that fails leaves its target as it was: a
\* BasicCard / OptionItem / List setter called with an empty required
\* argument creates or changes no field of the element, and addBasicCard /
\* addImageCard called with one leaves the items of the document.
C13_FailedCallChangesNothing ==
    [][FailedStep =>
          /\ elements' = elements
          /\ responseObj'.items = responseObj.items]_vars

=============================================================================
